---- MODULE Spec2Model ----
(***************************************************************************)
(* Model of two pipeline components of the RTDIP SDK:                      *)
(*   - EdgeXJsonToPCDMTransformer (transformers/spark/edgex_json_to_pcdm)  *)
(*   - SparkEventhubSource        (sources/spark/eventhub)                 *)
(* and of DataBricksAutoLoaderSource as far as its tests describe it.      *)
(*                                                                         *)
(* A DataFrame is a record [columns, rows]: columns is the sequence of     *)
(* column names, rows the sequence of rows, each row a sequence of values  *)
(* positionally aligned with columns (Spark allows duplicate names).       *)
(***************************************************************************)
EXTENDS Integers, Sequences, FiniteSets, TLC

\* SQL NULL / Python None for string-typed values.
NULL == "<NULL>"

\* Bounds of the model.
MaxRecords == 2
MaxReads == 3

VARIABLES
    ctor_args,          \* history: the optional arguments given to the transformer's __init__
    data,               \* EdgeXJsonToPCDMTransformer.data (input DataFrame)
    status_null_value,  \* EdgeXJsonToPCDMTransformer.status_null_value
    change_type_value,  \* EdgeXJsonToPCDMTransformer.change_type_value
    session_tz,         \* spark.sql.session.timeZone, read by current_timezone()
    result,             \* outcome of the last transform() call
    options,            \* SparkEventhubSource.options (the caller's dict)
    initial_options,    \* history: the dict as given to __init__
    encrypt_calls,      \* history: arguments of EventHubsUtils.encrypt, in order
    encrypt_done,       \* history: number of encrypt calls that returned
    loads,              \* history: load() requests issued, in order
    outcome,            \* outcome of the last read_batch()/read_stream() call
    raised,             \* history: what the external calls of the last read raised, or NoExc
    al_loads,           \* history: load() requests issued by the Auto Loader source
    al_outcome          \* outcome of the last Auto Loader read call

transformer_vars == <<ctor_args, data, status_null_value, change_type_value, session_tz, result>>
eventhub_vars == <<options, initial_options, encrypt_calls, encrypt_done, loads, outcome, raised>>
autoloader_vars == <<al_loads, al_outcome>>
vars == <<transformer_vars, eventhub_vars, autoloader_vars>>

(***************************************************************************)
(* EdgeXJsonToPCDMTransformer                                              *)
(***************************************************************************)

\* Raw EdgeX value-type tags used as inputs: the eleven tags the code names,
\* differently-cased and unknown spellings, the empty string and NULL.
IntegerTags == {"Int8", "Int16", "Int32", "Int64", "Uint8", "Uint16", "Uint32", "Uint64"}
FloatTags == {"Float32", "Float64"}
BoolTags == {"Bool"}
KnownTags == IntegerTags \cup FloatTags \cup BoolTags
UnknownTags == {"int8", "BOOL", "String", "Binary", "", NULL}
RawTags == KnownTags \cup UnknownTags

NanosPerSecond == 1000000000

\* Session time zones and their offset from UTC, in seconds, in January 1970.
TimeZones == {"UTC", "Europe/Amsterdam", "America/Los_Angeles"}
ZoneOffsetSeconds(tz) ==
    CASE tz = "UTC" -> 0
      [] tz = "Europe/Amsterdam" -> 3600
      [] tz = "America/Los_Angeles" -> 0 - 28800

\* Keyword defaults of __init__; Omitted marks an argument the caller left out.
DefaultStatus == "Good"
DefaultChangeType == "insert"
Omitted == "<omitted>"
ArgOrDefault(arg, default) == IF arg = Omitted THEN default ELSE arg

\* ---- input data -------------------------------------------------------

Reading(o, v, t) == [origin |-> o, value |-> v, valueType |-> t]

\* A readings array is [null, items]; a JSON object without "readings"
\* parses to a NULL array.
Array(items) == [null |-> FALSE, items |-> items]
NullArray == [null |-> TRUE, items |-> <<>>]

\* One reading per raw tag, with origins spread over whole and fractional seconds.
TagOrder ==
    <<"Int8", "Int16", "Int32", "Int64", "Uint8", "Uint16", "Uint32", "Uint64",
      "Float32", "Float64", "Bool", "int8", "BOOL", "String", "Binary", "", NULL>>
SampleOrigins == <<0, 1000000000, 1500000000, 2000000999>>
AllTagReadings ==
    [i \in 1..Len(TagOrder) |->
        Reading(SampleOrigins[((i - 1) % Len(SampleOrigins)) + 1],
                IF i % 2 = 0 THEN "21.5" ELSE "true",
                TagOrder[i])]

\* The body column holds the raw payload string; the model keeps of it what
\* from_json can observe: whether it is NULL, malformed, or a JSON object
\* with a deviceName and a readings array.
JsonObject(d, rs) == [json |-> "object", deviceName |-> d, readings |-> rs]
NullPayload == [json |-> "null", deviceName |-> NULL, readings |-> NullArray]
MalformedPayload == [json |-> "malformed", deviceName |-> NULL, readings |-> NullArray]
Payloads ==
    { NullPayload, MalformedPayload,
      JsonObject("dev1", NullArray),
      JsonObject("dev1", Array(<<>>)),
      JsonObject("dev1", Array(<<Reading(1000000000, "7", "Int8")>>)),
      JsonObject("dev2", Array(<<Reading(1500000000, "0.5", "Float64"),
                                 Reading(0, "x", NULL)>>)),
      JsonObject("dev2", Array(AllTagReadings)) }

RECURSIVE SeqsUpTo(_, _)
SeqsUpTo(S, n) ==
    IF n = 0 THEN {<<>>}
    ELSE LET shorter == SeqsUpTo(S, n - 1)
         IN  shorter \cup {Append(s, x) : s \in {t \in shorter : Len(t) = n - 1}, x \in S}

\* Input column layouts: the body column and any extra columns.
ExtraNames == {"enqueuedTime", "col"}
InputColumns ==
    {s \in SeqsUpTo(ExtraNames \cup {"body"}, Cardinality(ExtraNames) + 1) :
        /\ Cardinality({i \in DOMAIN s : s[i] = "body"}) = 1
        /\ \A i, j \in DOMAIN s : s[i] = s[j] => i = j}

\* The input DataFrame with the given layout and one row per payload.
InputFrame(cols, payloads) ==
    [columns |-> cols,
     rows |-> [r \in DOMAIN payloads |->
                 [c \in DOMAIN cols |->
                     IF cols[c] = "body" THEN payloads[r] ELSE "extra"]]]

\* ---- DataFrame operations ----------------------------------------------

Positions(df, name) == {i \in DOMAIN df.columns : df.columns[i] = name}
Resolvable(df, name) == Cardinality(Positions(df, name)) = 1
ColumnOf(df, row, name) == row[CHOOSE i \in Positions(df, name) : TRUE]

\* DataFrame.withColumn(name, column): values holds the column's value for
\* each row; replaces the column of that name, else appends it.
WithColumn(df, name, values) ==
    IF Positions(df, name) = {}
    THEN [columns |-> Append(df.columns, name),
          rows |-> [r \in DOMAIN df.rows |-> Append(df.rows[r], values[r])]]
    ELSE [columns |-> df.columns,
          rows |-> [r \in DOMAIN df.rows |->
                      [c \in DOMAIN df.columns |->
                          IF df.columns[c] = name THEN values[r] ELSE df.rows[r][c]]]]

\* DataFrame.select(names): the named columns, in the order given.
Select(df, names) ==
    [columns |-> names,
     rows |-> [r \in DOMAIN df.rows |->
                 [c \in DOMAIN names |-> ColumnOf(df, df.rows[r], names[c])]]]

\* from_json(body, EDGEX_SCHEMA): a NULL or malformed payload has no readings.
from_json(payload) ==
    IF payload.json = "object"
    THEN [deviceName |-> payload.deviceName, readings |-> payload.readings]
    ELSE [deviceName |-> NULL, readings |-> NullArray]

explode_outer(array) ==
    IF array.null \/ array.items = <<>> THEN <<Reading(0, NULL, NULL)>> ELSE array.items
\* explode(array): one row per element; none for a NULL or empty array.
explode(array) == IF array.null THEN <<>> ELSE array.items

RECURSIVE FlatMapRows(_, _)
FlatMapRows(rows, bodyPos) ==
    IF rows = <<>> THEN <<>>
    ELSE LET row == Head(rows)
             items == explode(row[bodyPos].readings)
         IN  [i \in DOMAIN items |-> Append(row, items[i])]
             \o FlatMapRows(Tail(rows), bodyPos)

\* .select("*", explode("body.readings")): all columns plus the generated "col".
SelectStarExplode(df) ==
    [columns |-> Append(df.columns, "col"),
     rows |-> FlatMapRows(df.rows, CHOOSE i \in Positions(df, "body") : TRUE)]

\* to_timestamp(origin / 1000000000): seconds since the epoch, kept to the microsecond.
to_timestamp(origin) ==
    [sec |-> origin \div NanosPerSecond,
     micros |-> (origin % NanosPerSecond) \div 1000]

\* to_utc_timestamp(ts, tz): reads ts as wall-clock time in tz and returns the
\* UTC instant of it, i.e. ts moved back by the zone's offset.
to_utc_timestamp(ts, tz) == [sec |-> ts.sec - ZoneOffsetSeconds(tz), micros |-> ts.micros]

EventTimeExpr(origin, tz) == to_utc_timestamp(to_timestamp(origin), tz)

\* .selectExpr("body.deviceName as TagName", "... as EventTime",
\*             "col.value as Value", "col.valueType as ValueType")
SelectExpr(df, tz) ==
    [columns |-> <<"TagName", "EventTime", "Value", "ValueType">>,
     rows |-> [r \in DOMAIN df.rows |->
                 LET body == ColumnOf(df, df.rows[r], "body")
                     c == ColumnOf(df, df.rows[r], "col")
                 IN  <<body.deviceName, EventTimeExpr(c.origin, tz), c.value, c.valueType>>]]

\* col("ValueType") == literal, in SQL three-valued logic.
SqlEq(a, b) == IF a = NULL \/ b = NULL THEN "UNKNOWN" ELSE IF a = b THEN "TRUE" ELSE "FALSE"

WhenBranchesDropUint64 ==
    << <<"Int8", "integer">>, <<"Int16", "integer">>, <<"Int32", "integer">>,
       <<"Int64", "integer">>, <<"Uint8", "integer">>, <<"Uint16", "integer">>,
       <<"Uint32", "integer">>, <<"Float32", "float">>, <<"Float64", "float">>,
       <<"Bool", "bool">> >>
\* The when(...) branches, in order.
WhenBranches ==
    << <<"Int8", "integer">>, <<"Int16", "integer">>, <<"Int32", "integer">>,
       <<"Int64", "integer">>, <<"Uint8", "integer">>, <<"Uint16", "integer">>,
       <<"Uint32", "integer">>, <<"Uint64", "integer">>,
       <<"Float32", "float">>, <<"Float64", "float">>, <<"Bool", "bool">> >>

OtherwiseMissing == NULL
\* .otherwise("string")
Otherwise == "string"

\* CASE WHEN: the value of the first branch whose condition is TRUE.
RECURSIVE CaseWhen(_, _)
CaseWhen(v, branches) ==
    IF branches = <<>> THEN Otherwise
    ELSE IF SqlEq(v, Head(branches)[1]) = "TRUE" THEN Head(branches)[2]
    ELSE CaseWhen(v, Tail(branches))

MapValueType(v) == CaseWhen(v, WhenBranches)

StatusLitDefault(status) == DefaultStatus
\* lit(self.status_null_value)
StatusLit(status) == status

ChangeTypeLit(change) == change

\* The final select's column list.
OutputColumns == <<"TagName", "EventTime", "Status", "Value", "ValueType", "ChangeType">>

FinalSelectAll(df) == df
\* df.select("TagName", "EventTime", "Status", "Value", "ValueType", "ChangeType")
FinalSelect(df) == Select(df, OutputColumns)

\* The whole column pipeline of transform(), for inputs on which every column
\* reference resolves.
Pipeline(df, status, change, tz) ==
    LET parsed ==
            WithColumn(df, "body",
                [r \in DOMAIN df.rows |-> from_json(ColumnOf(df, df.rows[r], "body"))])
        exploded == SelectStarExplode(parsed)
        projected == SelectExpr(exploded, tz)
        withStatus ==
            WithColumn(projected, "Status",
                [r \in DOMAIN projected.rows |-> StatusLit(status)])
        withChange ==
            WithColumn(withStatus, "ChangeType",
                [r \in DOMAIN withStatus.rows |-> ChangeTypeLit(change)])
        mapped ==
            WithColumn(withChange, "ValueType",
                [r \in DOMAIN withChange.rows |->
                    MapValueType(ColumnOf(withChange, withChange.rows[r], "ValueType"))])
    IN  FinalSelect(mapped)

\* After select("*", explode(...)) an input column named "col" makes the
\* reference col.origin ambiguous, and the analyzer rejects the query.
AmbiguousReference(df) == ~Resolvable([columns |-> Append(df.columns, "col")], "col")

NoResult == [state |-> "none"]
Returned(df) == [state |-> "returned", df |-> df]
Raised(exc) == [state |-> "raised", exc |-> exc]

transform ==
    /\ result' = IF AmbiguousReference(data)
                 THEN Raised("AnalysisException")
                 ELSE Returned(Pipeline(data, status_null_value, change_type_value, session_tz))
    /\ UNCHANGED <<ctor_args, data, status_null_value, change_type_value, session_tz>>
    /\ UNCHANGED <<eventhub_vars, autoloader_vars>>

(***************************************************************************)
(* SparkEventhubSource                                                     *)
(***************************************************************************)

\* Option values are strings; enc counts how many times EventHubsUtils.encrypt
\* has been applied to the text.
Str(text) == [text |-> text, enc |-> 0]

\* sc._jvm.org.apache.spark.eventhubs.EventHubsUtils.encrypt(value)
Encrypt(value) == [value EXCEPT !.enc = @ + 1]

\* eventhub_connection_string = "eventhubs.connectionString"
eventhub_connection_string == "eventhubs.connectionString"

\* Exceptions the external calls can raise.
NoExc == [type |-> NULL, message |-> NULL]
EncryptError == [type |-> "Py4JJavaError", message |-> "An error occurred while calling encrypt"]
LoadError == [type |-> "IllegalArgumentException", message |-> "eventhubs: load failed"]

OptionDicts ==
    LET cs == eventhub_connection_string
        cg == "eventhubs.consumerGroup"
        \* a dict with the given keys; connection string text as given
        Dict(keys, text) ==
            [k \in keys |-> IF k = cs THEN Str(text) ELSE Str("$Default")]
    IN  {Dict(keys, text) : keys \in SUBSET {cs, cg},
                            text \in {"Endpoint=sb://a", "Endpoint=sb://b"}}

\* self.options[key] = value
PutKeepOld(opts, key, value) == opts
SetItem(opts, key, value) ==
    [k \in DOMAIN opts \cup {key} |-> IF k = key THEN value ELSE opts[k]]

\* The argument of the encrypt call a read makes: none when the key is absent.
EncryptArgumentAlways(opts) ==
    IF eventhub_connection_string \in DOMAIN opts
    THEN <<opts[eventhub_connection_string]>>
    ELSE <<Str("")>>
EncryptArgument(opts) ==
    IF eventhub_connection_string \in DOMAIN opts
    THEN <<opts[eventhub_connection_string]>>
    ELSE <<>>

WrapException(e) == [type |-> "RuntimeError", message |-> e.type]
\* except Exception as e: print(e); logging.exception(...); raise e
Reraise(e) == e

\* self.spark.read / readStream .format("eventhubs").options(**self.options).load()
LoadRequest(mode, opts, done) ==
    [mode |-> mode, format |-> "eventhubs", options |-> opts, encryptions |-> done]

\* The body shared by read_batch() and read_stream(), which differ in the
\* reader only (spark.read / spark.readStream): the state one call leaves.
\* encryptResult and loadResult are what the external calls do: NoExc for a
\* normal return, else the exception raised.
Read(mode, encryptResult, loadResult) ==
    LET args == EncryptArgument(options)
        encrypts == args # <<>>
        encryptFails == encrypts /\ encryptResult # NoExc
        newOptions ==
            IF encrypts /\ ~encryptFails
            THEN SetItem(options, eventhub_connection_string, Encrypt(args[1]))
            ELSE options
        done == IF encrypts /\ ~encryptFails THEN encrypt_done + 1 ELSE encrypt_done
        request == LoadRequest(mode, newOptions, done)
    IN  [encrypt_calls |-> encrypt_calls \o args,
         encrypt_done |-> done,
         options |-> newOptions,
         loads |-> IF encryptFails THEN loads ELSE Append(loads, request),
         raised |-> IF encryptFails THEN encryptResult ELSE loadResult,
         outcome |-> IF encryptFails THEN Raised(Reraise(encryptResult))
                     ELSE IF loadResult = NoExc THEN Returned(request)
                     ELSE Raised(Reraise(loadResult)),
         \* the external calls this read makes are the ones given a result
         consistent |-> /\ encrypts \/ encryptResult = NoExc
                        /\ ~encryptFails \/ loadResult = NoExc]

read_batch ==
    \E encryptResult \in {NoExc, EncryptError}, loadResult \in {NoExc, LoadError} :
        LET call == Read("batch", encryptResult, loadResult)
        IN  /\ Len(encrypt_calls) < MaxReads
            /\ Len(loads) < MaxReads
            /\ call.consistent
            /\ encrypt_calls' = call.encrypt_calls
            /\ encrypt_done' = call.encrypt_done
            /\ options' = call.options
            /\ loads' = call.loads
            /\ raised' = call.raised
            /\ outcome' = call.outcome
            /\ UNCHANGED initial_options
            /\ UNCHANGED <<transformer_vars, autoloader_vars>>

read_stream ==
    \E encryptResult \in {NoExc, EncryptError}, loadResult \in {NoExc, LoadError} :
        LET call == Read("stream", encryptResult, loadResult)
        IN  /\ Len(encrypt_calls) < MaxReads
            /\ Len(loads) < MaxReads
            /\ call.consistent
            /\ encrypt_calls' = call.encrypt_calls
            /\ encrypt_done' = call.encrypt_done
            /\ options' = call.options
            /\ loads' = call.loads
            /\ raised' = call.raised
            /\ outcome' = call.outcome
            /\ UNCHANGED initial_options
            /\ UNCHANGED <<transformer_vars, autoloader_vars>>

(***************************************************************************)
(* DataBricksAutoLoaderSource                                              *)
(***************************************************************************)

\* The message of the failure, as the concatenation of its parts; Backquote
\* stands for the grave accent character (U+0060) around availableNow=True.
Backquote == "U+0060"
AutoLoaderBatchMessage ==
    <<"Auto Loader only supports streaming reads. To perform a batch read, use the read_stream method and specify Trigger on the write_stream as ",
      Backquote, "availableNow=True", Backquote>>

AutoLoaderBatchReturns == Returned([mode |-> "batch", format |-> "cloudFiles"])
\* read_batch() of the streaming-only source.
AutoLoaderBatchOutcome ==
    Raised([type |-> "NotImplementedError", message |-> AutoLoaderBatchMessage])

autoloader_read_batch ==
    /\ al_outcome' = AutoLoaderBatchOutcome
    /\ al_loads' = IF AutoLoaderBatchOutcome.state = "returned"
                   THEN Append(al_loads, "batch") ELSE al_loads
    /\ Len(al_loads') <= MaxReads
    /\ UNCHANGED <<transformer_vars, eventhub_vars>>

autoloader_read_stream ==
    /\ Len(al_loads) < MaxReads
    /\ al_loads' = Append(al_loads, "stream")
    /\ al_outcome' = Returned([mode |-> "stream", format |-> "cloudFiles"])
    /\ UNCHANGED <<transformer_vars, eventhub_vars>>

\* The transformer as constructed by
\* __init__(data, status_null_value="Good", change_type_value="insert"),
\* beside sources that are never read.
InitTransformer ==
    /\ ctor_args \in [status : {Omitted, "Bad"}, change : {Omitted, "update"}]
    /\ \E cols \in InputColumns, payloads \in SeqsUpTo(Payloads, MaxRecords) :
           data = InputFrame(cols, payloads)
    /\ status_null_value = ArgOrDefault(ctor_args.status, DefaultStatus)
    /\ change_type_value = ArgOrDefault(ctor_args.change, DefaultChangeType)
    /\ session_tz \in TimeZones
    /\ result = NoResult
    /\ options = <<>>
    /\ initial_options = options
    /\ encrypt_calls = <<>>
    /\ encrypt_done = 0
    /\ loads = <<>>
    /\ outcome = NoResult
    /\ raised = NoExc
    /\ al_loads = <<>>
    /\ al_outcome = NoResult

NextTransformer == transform

SpecTransformer == InitTransformer /\ [][NextTransformer]_vars

\* The sources as constructed by SparkEventhubSource.__init__(spark, options)
\* and DataBricksAutoLoaderSource(...), beside a transformer that is never run.
InitSources ==
    /\ ctor_args = [status |-> Omitted, change |-> Omitted]
    /\ data = InputFrame(<<"body">>, <<>>)
    /\ status_null_value = DefaultStatus
    /\ change_type_value = DefaultChangeType
    /\ session_tz = "UTC"
    /\ result = NoResult
    /\ options \in OptionDicts
    /\ initial_options = options
    /\ encrypt_calls = <<>>
    /\ encrypt_done = 0
    /\ loads = <<>>
    /\ outcome = NoResult
    /\ raised = NoExc
    /\ al_loads = <<>>
    /\ al_outcome = NoResult

NextSources ==
    \/ read_batch
    \/ read_stream
    \/ autoloader_read_batch
    \/ autoloader_read_stream

SpecSources == InitSources /\ [][NextSources]_vars

(***************************************************************************)
(* Properties of transform()                                               *)
(***************************************************************************)

\* The input seen from the caller's side: the payload of input record r, the
\* number of readings it holds, and the number of readings before it.
PayloadOf(r) == ColumnOf(data, data.rows[r], "body")
ReadingCount(r) ==
    LET p == PayloadOf(r)
    IN  IF p.json = "object" /\ ~p.readings.null THEN Len(p.readings.items) ELSE 0
RECURSIVE ReadingsBefore(_)
ReadingsBefore(r) == IF r = 1 THEN 0 ELSE ReadingsBefore(r - 1) + ReadingCount(r - 1)
ReadingAt(r, j) == PayloadOf(r).readings.items[j]
InputReadings == {<<r, j>> : r \in DOMAIN data.rows, j \in 1..Len(TagOrder)}
SourceReadings == {p \in InputReadings : p[2] <= ReadingCount(p[1])}

HasReturned == result.state = "returned"
OutRows == result.df.rows
\* The output row that reading j of input record r is expected to become.
OutRowOf(r, j) == OutRows[ReadingsBefore(r) + j]
Out(row, name) == ColumnOf(result.df, row, name)
RowsAligned == Len(OutRows) = ReadingsBefore(Len(data.rows) + 1)

\* C1: a reading tagged Int8..Int64 or Uint8..Uint64 comes out with ValueType
\* "integer", one tagged Float32 or Float64 with "float", one tagged Bool
\* with "bool".
C1_KnownTagsMapToBucket ==
    HasReturned =>
        /\ RowsAligned
        /\ \A p \in SourceReadings :
              LET tag == ReadingAt(p[1], p[2]).valueType
                  vt == Out(OutRowOf(p[1], p[2]), "ValueType")
              IN  /\ tag \in IntegerTags => vt = "integer"
                  /\ tag \in FloatTags => vt = "float"
                  /\ tag \in BoolTags => vt = "bool"

\* C1 witness: transform() returned rows for readings of all eleven known tags.
C1_Witness ==
    /\ HasReturned
    /\ RowsAligned
    /\ \A t \in KnownTags : \E p \in SourceReadings : ReadingAt(p[1], p[2]).valueType = t
    /\ \E p \in SourceReadings :
          /\ ReadingAt(p[1], p[2]).valueType = "Uint64"
          /\ Out(OutRowOf(p[1], p[2]), "ValueType") = "integer"

\* C2: every output row's ValueType is one of integer, float, bool, string, and
\* a reading whose tag is not one of the eleven known tags (unknown, differently
\* cased, empty or NULL) comes out with ValueType "string".
C2_ValueTypeIsBucket ==
    HasReturned =>
        /\ RowsAligned
        /\ \A k \in DOMAIN OutRows :
              Out(OutRows[k], "ValueType") \in {"integer", "float", "bool", "string"}
        /\ \A p \in SourceReadings :
              ReadingAt(p[1], p[2]).valueType \notin KnownTags
                  => Out(OutRowOf(p[1], p[2]), "ValueType") = "string"

\* C2 witness: transform() returned rows for a NULL tag, an empty tag and a
\* lower-case spelling, all bucketed as "string".
C2_Witness ==
    /\ HasReturned
    /\ RowsAligned
    /\ \A t \in {NULL, "", "int8"} :
          \E p \in SourceReadings :
              /\ ReadingAt(p[1], p[2]).valueType = t
              /\ Out(OutRowOf(p[1], p[2]), "ValueType") = "string"

C4_EventTimeIsOriginInstant ==
    HasReturned =>
        /\ RowsAligned
        /\ \A p \in SourceReadings :
              LET n == ReadingAt(p[1], p[2]).origin
              IN  Out(OutRowOf(p[1], p[2]), "EventTime") =
                      [sec |-> n \div 1000000000, micros |-> (n % 1000000000) \div 1000]

\* C7: in one transform() call every row has the same Status and the same
\* ChangeType: the constructor's arguments, or "Good" and "insert" where left out.
C7_StatusAndChangeTypeConstant ==
    HasReturned =>
        \A k \in DOMAIN OutRows :
            /\ Out(OutRows[k], "Status") =
                  (IF ctor_args.status = Omitted THEN "Good" ELSE ctor_args.status)
            /\ Out(OutRows[k], "ChangeType") =
                  (IF ctor_args.change = Omitted THEN "insert" ELSE ctor_args.change)

\* C7 witness: several rows of different devices and tags, a supplied status
\* and a defaulted change type.
C7_Witness ==
    /\ HasReturned
    /\ ctor_args.status = "Bad"
    /\ ctor_args.change = Omitted
    /\ \E k, m \in DOMAIN OutRows :
          /\ Out(OutRows[k], "TagName") # Out(OutRows[m], "TagName")
          /\ Out(OutRows[k], "Status") = "Bad"
          /\ Out(OutRows[m], "ChangeType") = "insert"

\* C10: transform() returns one row per reading: as many rows as the input
\* records hold readings, reading j of record r giving a row with the record's
\* deviceName as TagName and the reading's value as Value; a record without
\* readings, or whose body does not parse, gives no row.
C10_OneRowPerReading ==
    HasReturned =>
        /\ RowsAligned
        /\ \A p \in SourceReadings :
              /\ Out(OutRowOf(p[1], p[2]), "TagName") = PayloadOf(p[1]).deviceName
              /\ Out(OutRowOf(p[1], p[2]), "Value") = ReadingAt(p[1], p[2]).value

\* C10 witness: a malformed body followed by a record with two readings, which
\* become the only two rows.
C10_Witness ==
    /\ HasReturned
    /\ Len(data.rows) = 2
    /\ PayloadOf(1).json = "malformed"
    /\ ReadingCount(2) = 2
    /\ Len(OutRows) = 2
    /\ Out(OutRows[2], "TagName") = "dev2"
(***************************************************************************)
(* Properties of the sources                                               *)
(***************************************************************************)

HasConnectionString == eventhub_connection_string \in DOMAIN initial_options

RECURSIVE EncryptTimes(_, _)
EncryptTimes(value, k) == IF k = 0 THEN value ELSE Encrypt(EncryptTimes(value, k - 1))

\* C5: when the encryption step or the load of a read raises, the read raises
\* that same exception (type and message), returns no dataset and has issued
\* at most one load.
C5_ExceptionPropagatesUnchanged ==
    [][raised' # NoExc =>
          /\ outcome' = Raised(raised')
          /\ Len(loads') <= Len(loads) + 1
          /\ Len(encrypt_calls') <= Len(encrypt_calls) + 1]_vars

\* C5 witness: a read whose encryption step completed and whose load raised.
C5_Witness ==
    /\ raised = LoadError
    /\ outcome = Raised(LoadError)
    /\ encrypt_done >= 1
    /\ Len(loads) >= 1

\* C6: without the key eventhubs.connectionString in the options, reads never
\* call the encryption utility, leave the options as constructed and issue
\* every load with exactly that mapping.
C6_NoKeyNoEncryption ==
    ~HasConnectionString =>
        /\ encrypt_calls = <<>>
        /\ encrypt_done = 0
        /\ options = initial_options
        /\ \A i \in DOMAIN loads : loads[i].options = initial_options

\* C6 witness: a batch and a stream load issued without the key, the other
\* key still in place.
C6_Witness ==
    /\ ~HasConnectionString
    /\ DOMAIN initial_options # {}
    /\ \E i, j \in DOMAIN loads : loads[i].mode = "batch" /\ loads[j].mode = "stream"
    /\ options = initial_options

\* C9: with the key present, after k reads whose encryption step completed the
\* stored connection string is the original encrypted k times; each load was
\* given the value as encrypted up to and including its own read; every other
\* key keeps its value.
C9_ReencryptsStoredValue ==
    HasConnectionString =>
        LET cs == eventhub_connection_string
            Others(opts) == [k \in DOMAIN opts \ {cs} |-> opts[k]]
        IN  /\ DOMAIN options = DOMAIN initial_options
            /\ options[cs] = EncryptTimes(initial_options[cs], encrypt_done)
            /\ Others(options) = Others(initial_options)
            /\ \A i \in DOMAIN loads :
                  /\ loads[i].encryptions >= i
                  /\ loads[i].encryptions <= encrypt_done
                  /\ DOMAIN loads[i].options = DOMAIN initial_options
                  /\ loads[i].options[cs] =
                        EncryptTimes(initial_options[cs], loads[i].encryptions)
                  /\ Others(loads[i].options) = Others(initial_options)
            /\ \A i \in DOMAIN encrypt_calls :
                  \E k \in 0..(i - 1) :
                      encrypt_calls[i] = EncryptTimes(initial_options[cs], k)

\* C9 witness: a batch read then a stream read, the second load given the
\* twice-encrypted connection string, beside an untouched consumer group.
C9_Witness ==
    /\ HasConnectionString
    /\ DOMAIN initial_options = {eventhub_connection_string, "eventhubs.consumerGroup"}
    /\ encrypt_done = 2
    /\ Len(loads) = 2
    /\ loads[1].mode = "batch"
    /\ loads[2].mode = "stream"
    /\ loads[2].options[eventhub_connection_string].enc = 2
    /\ options[eventhub_connection_string].enc = 2

\* C8: read_batch() of the Auto Loader source always raises NotImplementedError
\* with the documented message and issues no load; read_stream() returns a
\* dataset.
C8_AutoLoaderBatchNotSupported ==
    [][/\ autoloader_read_batch =>
              /\ al_outcome'.state = "raised"
              /\ al_outcome'.exc.type = "NotImplementedError"
              /\ al_outcome'.exc.message =
                    <<"Auto Loader only supports streaming reads. To perform a batch read, use the read_stream method and specify Trigger on the write_stream as ",
                      Backquote, "availableNow=True", Backquote>>
              /\ al_loads' = al_loads
       /\ autoloader_read_stream => al_outcome'.state = "returned"]_vars

\* C8 witness: a batch read that raised after a stream read that loaded.
C8_Witness ==
    /\ al_outcome.state = "raised"
    /\ al_outcome.exc.type = "NotImplementedError"
    /\ al_loads = <<"stream">>
====
